---- MODULE Spec2Model ----
(***************************************************************************)
(* Bot lifecycle tracking of the map-based App component                   *)
(* (src/src/App.tsx, second component, lines 244-733) together with the    *)
(* ApiService it calls (src/src/services/api.ts, first revision).          *)
(*                                                                         *)
(* The component runs on a single-threaded event loop: every action below  *)
(* is one callback turn (a UI event handler up to its first await, the     *)
(* continuation of an await, or a timer callback).  A request in flight    *)
(* and a pending timer are state.  A callback reads the selectedBotId its   *)
(* closure captured, not the current one: loadBots and handleDeleteBot keep *)
(* the captured value ("sel"); fetchScorecardData only compares it with its *)
(* target, so a poller, timer or request that ends in fetchScorecardData    *)
(* keeps that comparison ("own": the captured selection is the bot).        *)
(***************************************************************************)
EXTENDS Integers, Sequences, FiniteSets

VARIABLES
    server,            \* backend: bot id -> "none" | status | "gone"
    bots,              \* useState bots: sequence of [id, status]
    selectedBotId,     \* useState selectedBotId (0 is null)
    storage,           \* localStorage 'selectedBotId' (0 is absent)
    isCreatingNewBot,  \* useState isCreatingNewBot
    scorecardCache,    \* useState scorecardCache: id -> "none" | scorecard status
    loading,           \* useState loading
    error,             \* useState error (TRUE: a message is set)
    pollingIntervals,  \* useRef pollingIntervals: id -> interval handle (0 is no entry)
    intervals,         \* the live (not cleared) setInterval timers: [h, bot, own]
    isMounted,         \* useRef isMounted
    fetchInProgress,   \* useRef fetchInProgress
    pollReqs,          \* pollBotStatus requests of interval callbacks in flight
    refreshReqs,       \* pollBotStatus requests of refreshBotStatus in flight
    listReqs,          \* getBots requests of loadBots in flight
    createReqs,        \* createBot requests in flight
    deleteReqs,        \* deleteBot requests in flight
    scReqs,            \* getMeetingScorecard requests in flight
    analysisReqs,      \* triggerAnalysis requests in flight: [bot, own, manual]
    timers,            \* pending setTimeout callbacks: [kind, bot, own]
    pollerSaw,         \* history: id -> last terminal status a poller tick handled
    fetchAttempted,    \* history: the ids getMeetingScorecard was requested for
    lastFailure,       \* history: the failed request the last step handled, or "none"
    http,              \* one call of ApiService.makeRequest: its inputs, URL and outcome
    reportPoll,        \* one call of ApiService.pollForReport: its locals and outcome
    authApp            \* the poller of the auth-enabled App revision, for one bot

client == <<bots, selectedBotId, storage, isCreatingNewBot, scorecardCache,
            loading, error>>
refs == <<pollingIntervals, intervals, isMounted, fetchInProgress>>
flight == <<pollReqs, refreshReqs, listReqs, createReqs, deleteReqs, scReqs,
            analysisReqs, timers>>
history == <<pollerSaw, fetchAttempted>>
vars == <<server, client, refs, flight, history, lastFailure, http, reportPoll,
          authApp>>

----------------------------------------------------------------------------
(* Bounds of the model. *)

MaxBots == 1
MaxPending == 2

BotIds == 1..MaxBots
NoBot == 0

Statuses == {"PENDING", "STARTED", "COMPLETED", "FAILED"}
Active == {"PENDING", "STARTED"}
Terminal == {"COMPLETED", "FAILED"}
\* MeetingWithScorecard.status (src/src/types/index.ts 65)
ScStatuses == {"available", "processing", "unavailable", "error",
               "processing_needed", "no_data"}

----------------------------------------------------------------------------
(* Bags of requests and timers: a function from the elements present to    *)
(* their number of copies.                                                 *)

NoneInFlight == [x \in {} |-> 0]

Put(B, e) ==
    IF e \in DOMAIN B
    THEN [B EXCEPT ![e] = @ + 1]
    ELSE [x \in DOMAIN B \cup {e} |-> IF x = e THEN 1 ELSE B[x]]

Take(B, e) ==
    IF B[e] > 1
    THEN [B EXCEPT ![e] = @ - 1]
    ELSE [x \in DOMAIN B \ {e} |-> B[x]]

RECURSIVE SumOver(_, _)
SumOver(B, S) ==
    IF S = {} THEN 0
    ELSE LET e == CHOOSE x \in S : TRUE
         IN B[e] + SumOver(B, S \ {e})

Size(B) == SumOver(B, DOMAIN B)
CountBot(B, b) == SumOver(B, {e \in DOMAIN B : e.bot = b})

Pending ==
    Size(pollReqs) + Size(refreshReqs) + Size(listReqs) + Size(createReqs)
    + Size(deleteReqs) + Size(scReqs) + Size(analysisReqs) + Size(timers)

Bounded == Pending <= MaxPending

----------------------------------------------------------------------------
(* The bot list. *)

Ids(bs) == {bs[i].id : i \in 1..Len(bs)}

\* bots.find(bot => bot.id === id): the status of the first record, or "none"
FindStatus(bs, id) ==
    IF id \in Ids(bs)
    THEN bs[CHOOSE i \in 1..Len(bs) :
                /\ bs[i].id = id
                /\ \A j \in 1..(i - 1) : bs[j].id # id].status
    ELSE "none"

\* prev.map(bot => bot.id === id ? {...bot, status} : bot)
SetStatus(bs, id, st) ==
    [i \in 1..Len(bs) |-> IF bs[i].id = id THEN [bs[i] EXCEPT !.status = st]
                                          ELSE bs[i]]

\* prev.filter(bot => bot.id !== id)
RemoveBot(bs, id) == SelectSeq(bs, LAMBDA r : r.id # id)

----------------------------------------------------------------------------
(* The backend, as far as the client observes it. *)

RECURSIVE ListFrom(_, _)
\* GET /api/v1/bots/: the existing bots, newest (highest id) first
ListFrom(srv, n) ==
    IF n = 0 THEN <<>>
    ELSE (IF srv[n] \in Statuses THEN <<[id |-> n, status |-> srv[n]]>> ELSE <<>>)
         \o ListFrom(srv, n - 1)

ServerList(srv) == ListFrom(srv, MaxBots)

\* POST /api/v1/bots/{id}/poll-status: a failure, {status_updated: false}
\* ("same") or {status_updated: true, new_status} with the backend's status
PollResults(srv, b) ==
    IF srv[b] \in Statuses THEN {"fail", "same", srv[b]} ELSE {"fail"}

\* the id the backend gives the next created bot (0: the model's ids are used up)
NextId(srv) ==
    IF \E b \in BotIds : srv[b] = "none"
    THEN CHOOSE b \in BotIds : srv[b] = "none" /\ \A c \in 1..(b - 1) : srv[c] # "none"
    ELSE 0

----------------------------------------------------------------------------
(* The component's functions. *)

\* the handle setInterval returns: one that no timer of iv has
NewHandle(iv) ==
    CHOOSE h \in 1..(Cardinality(iv) + 1) :
        /\ \A x \in iv : x.h # h
        /\ \A g \in 1..(h - 1) : \E x \in iv : x.h = g

\* cleanupPolling without its clearInterval calls
cleanupPollingKeepsTimer(pi, iv, botId) ==
    IF botId # NoBot
    THEN [pi |-> [pi EXCEPT ![botId] = 0], iv |-> iv]
    ELSE [pi |-> [b \in BotIds |-> 0], iv |-> iv]

cleanupPolling(pi, iv, botId) ==
    IF botId # NoBot
    THEN IF pi[botId] # 0
         THEN [pi |-> [pi EXCEPT ![botId] = 0],
               iv |-> {x \in iv : x.h # pi[botId]}]
         ELSE [pi |-> pi, iv |-> iv]
    ELSE [pi |-> [b \in BotIds |-> 0],
          iv |-> {x \in iv : \A b \in BotIds : x.h # pi[b]}]

\* startStatusPolling without its cleanupPolling(botId) call
startStatusPollingNoCleanup(pi, iv, botId, own) ==
    LET h == NewHandle(iv)
    IN [pi |-> [pi EXCEPT ![botId] = h],
        iv |-> iv \cup {[h |-> h, bot |-> botId, own |-> own]}]

startStatusPolling(pi, iv, botId, own) ==
    LET c == cleanupPolling(pi, iv, botId)
        h == NewHandle(iv)   \* differs from the handle just cleared, too
    IN [pi |-> [c.pi EXCEPT ![botId] = h],
        iv |-> c.iv \cup {[h |-> h, bot |-> botId, own |-> own]}]

\* fetchScorecardData without its fetchInProgress check
fetchScorecardDataUnguarded(f, target, own) ==
    [fip |-> f.fip \cup {target},
     reqs |-> Put(f.reqs, [bot |-> target, own |-> own]),
     loading |-> IF own THEN TRUE ELSE f.loading,
     error |-> IF own THEN FALSE ELSE f.error]

\* fetchScorecardData up to its await, for a target id that is not null; f is
\* [fip, reqs, loading, error] and own says that the target is the selectedBotId
\* the closure captured
fetchScorecardData(f, target, own) ==
    IF target \in f.fip
    THEN f
    ELSE [fip |-> f.fip \cup {target},
          reqs |-> Put(f.reqs, [bot |-> target, own |-> own]),
          loading |-> IF own THEN TRUE ELSE f.loading,
          error |-> IF own THEN FALSE ELSE f.error]

FetchState == [fip |-> fetchInProgress, reqs |-> scReqs,
               loading |-> loading, error |-> error]

\* the ids requested so far, after a call of fetchScorecardData that led to f
Requested(f, target) ==
    IF f.reqs # scReqs THEN fetchAttempted \cup {target} ELSE fetchAttempted

\* the load effect (App.tsx 546-591) runs after a render that changed
\* selectedBotId: loadBots issues getBots
Effect(lr, newSel, srv) ==
    IF isMounted /\ newSel # selectedBotId
    THEN Put(lr, [sel |-> newSel, data |-> ServerList(srv)])
    ELSE lr

RECURSIVE CompletedTimers(_, _, _, _)
\* botsData.forEach: a 100 * (index + 1) ms timer per COMPLETED bot
CompletedTimers(tm, data, i, sel) ==
    IF i > Len(data) THEN tm
    ELSE CompletedTimers(
             IF data[i].status = "COMPLETED"
             THEN Put(tm, [kind |-> "plain", bot |-> data[i].id,
                           own |-> data[i].id = sel])
             ELSE tm,
             data, i + 1, sel)

RECURSIVE StartActive(_, _, _, _)
\* botsData.forEach: startStatusPolling per PENDING or STARTED bot
StartActive(p, data, i, sel) ==
    IF i > Len(data) THEN p
    ELSE StartActive(
             IF data[i].status \in Active
             THEN startStatusPolling(p.pi, p.iv, data[i].id, data[i].id = sel)
             ELSE p,
             data, i + 1, sel)

----------------------------------------------------------------------------
(* ApiService (src/src/services/api.ts, first revision).  A string is the   *)
(* sequence of its characters.                                              *)

ApiSegment == <<"/", "a", "p", "i">>
ApiPrefix == <<"/", "a", "p", "i", "/">>
DoubledApi == <<"/", "a", "p", "i", "/", "a", "p", "i", "/">>
ProtocolMark == <<":", "/", "/">>

\* s.startsWith(p), s.endsWith(p)
StartsWith(s, p) == Len(s) >= Len(p) /\ SubSeq(s, 1, Len(p)) = p
EndsWith(s, p) == Len(s) >= Len(p) /\ SubSeq(s, Len(s) - Len(p) + 1, Len(s)) = p

\* s.indexOf(p) + 1: the first position where p occurs in s, 0 if nowhere
IndexOf(s, p) ==
    LET at == {i \in 1..(Len(s) - Len(p) + 1) : SubSeq(s, i, i + Len(p) - 1) = p}
    IN IF at = {} THEN 0 ELSE CHOOSE i \in at : \A j \in at : i <= j

\* s.includes(p)
Includes(s, p) == IndexOf(s, p) # 0

\* s.replace(p, q) with a string pattern: the first occurrence only
ReplaceFirst(s, p, q) ==
    LET i == IndexOf(s, p)
    IN IF i = 0 THEN s
       ELSE SubSeq(s, 1, i - 1) \o q \o SubSeq(s, i + Len(p), Len(s))

\* s.replace(/\/$/, '')
RemoveTrailingSlash(s) ==
    IF Len(s) > 0 /\ s[Len(s)] = "/" THEN SubSeq(s, 1, Len(s) - 1) ELSE s

RECURSIVE RunEnd(_, _)
\* the first position from i on that holds no slash
RunEnd(s, i) == IF i <= Len(s) /\ s[i] = "/" THEN RunEnd(s, i + 1) ELSE i

RECURSIVE CollapseFrom(_, _)
\* the scan of s.replace(/([^:])\/+/g, '$1/') from position i: a character
\* other than ':' followed by slashes is kept with one slash, and the scan
\* goes on after the slashes
CollapseFrom(s, i) ==
    IF i > Len(s) THEN <<>>
    ELSE IF s[i] # ":" /\ i < Len(s) /\ s[i + 1] = "/"
         THEN <<s[i], "/">> \o CollapseFrom(s, RunEnd(s, i + 1))
         ELSE <<s[i]>> \o CollapseFrom(s, i + 1)

CollapseSlashes(s) == CollapseFrom(s, 1)

constructUrl(baseUrl, endpoint) ==
    LET cleanBase == RemoveTrailingSlash(baseUrl)
        cleanEndpoint == IF StartsWith(endpoint, <<"/">>) THEN endpoint
                         ELSE <<"/">> \o endpoint
        finalBase == IF EndsWith(cleanBase, ApiSegment)
                        /\ StartsWith(cleanEndpoint, ApiPrefix)
                     THEN SubSeq(cleanBase, 1, Len(cleanBase) - Len(ApiSegment))
                     ELSE cleanBase
        url == finalBase \o cleanEndpoint
        finalUrl == CollapseSlashes(url)
    IN IF Includes(finalUrl, DoubledApi)
       THEN ReplaceFirst(finalUrl, DoubledApi, ApiPrefix)
       ELSE finalUrl

\* the configured base URL: an origin, with or without a trailing '/api'
\* segment and with or without a trailing slash
Origins == {<<"h", "t", "t", "p", "s", ":", "/", "/", "h", "o", "s", "t">>,
            <<"h", "t", "t", "p", ":", "/", "/", "l", "o", "c", "a", "l", "h", "o", "s", "t", ":", "8", "0", "0", "0">>,
            <<"h", "t", "t", "p", "s", ":", "/", "/", "a", "p", "i">>}
BaseSuffixes == {<<>>, <<"/">>, ApiSegment, ApiSegment \o <<"/">>}

\* the endpoints ApiService requests
Endpoints == {<<"/", "a", "p", "i", "/", "v", "1", "/", "b", "o", "t", "s", "/">>,
              <<"/", "a", "p", "i", "/", "v", "1", "/", "b", "o", "t", "s", "/", "1">>,
              <<"/", "a", "p", "i", "/", "v", "1", "/", "b", "o", "t", "s", "/", "1", "/", "p", "o", "l", "l", "-", "s", "t", "a", "t", "u", "s">>,
              <<"/", "m", "e", "e", "t", "i", "n", "g", "/", "1", "/", "s", "c", "o", "r", "e", "c", "a", "r", "d">>,
              <<"/", "w", "e", "b", "h", "o", "o", "k", "/", "u", "r", "l">>}

\* what fetch(url) resolves to, or its rejection: a response has ok, a status
\* and a body; a body parses as JSON or not and, parsed, has a message or not
\* (an empty message is falsy)
Bodies ==
    {[parses |-> FALSE, hasMessage |-> FALSE, message |-> ""],
     [parses |-> TRUE, hasMessage |-> FALSE, message |-> ""],
     [parses |-> TRUE, hasMessage |-> TRUE, message |-> ""],
     [parses |-> TRUE, hasMessage |-> TRUE, message |-> "Bot not found"]}

\* response.status, as the text `${response.status}` renders
OkStatuses == {"200", "201"}
ErrorStatuses == {"404", "500"}

FetchResults ==
    {[rejected |-> TRUE, ok |-> FALSE, status |-> "0",
      body |-> [parses |-> FALSE, hasMessage |-> FALSE, message |-> ""]]}
    \cup [rejected : {FALSE}, ok : {TRUE}, status : OkStatuses, body : Bodies]
    \cup [rejected : {FALSE}, ok : {FALSE}, status : ErrorStatuses, body : Bodies]

\* the try block of makeRequest: what it returns or the message of what it
\* throws (a message is the sequence of its parts)
TryBlock(res) ==
    IF res.rejected
    THEN [threw |-> TRUE, message |-> <<"Failed to fetch">>, data |-> res.body]
    ELSE IF ~res.ok
    THEN \* errorData = await response.json().catch(() => ({}))
         LET given == res.body.parses /\ res.body.hasMessage
                      /\ res.body.message # ""
         IN [threw |-> TRUE,
             message |-> IF given THEN <<res.body.message>>
                         ELSE <<"HTTP error! status: ", res.status>>,
             data |-> res.body]
    ELSE IF res.body.parses
    THEN [threw |-> FALSE, message |-> <<>>, data |-> res.body]
    ELSE [threw |-> TRUE, message |-> <<"Unexpected token">>, data |-> res.body]

\* makeRequest without its catch block
makeRequestNoCatch(res) ==
    LET t == TryBlock(res)
    IN [error |-> t.threw, message |-> t.message, data |-> t.data]

\* makeRequest after fetch settled: the catch block wraps whatever the try
\* block threw
makeRequest(res) ==
    LET t == TryBlock(res)
    IN IF t.threw
       THEN [error |-> TRUE, message |-> <<"Network error: ">> \o t.message,
             data |-> t.data]
       ELSE [error |-> FALSE, message |-> <<>>, data |-> t.data]

\* pollForReport (api.ts 99-133).  A delay is a number of quarter
\* milliseconds, so that every value of delay * 1.5 below the cap is exact.
Ms(n) == 4 * n
StartDelay == 2000
MaxDelay == 30000
StartedWait == 10000
MaxAttempts == 9

Min(a, b) == IF a <= b THEN a ELSE b

\* delay = Math.min(delay * 1.5, 30000)
Backoff(delay) == Min((delay * 3) \div 2, Ms(MaxDelay))

\* what getReport settles with: a rejection, a report with reports, or one
\* without reports whose status is STARTED or another one
ReportResults == {"fail", "ready", "started", "generating"}

\* startStatusPolling of the auth-enabled App (src/unnamed/part_005 499-525):
\* setInterval(pollStatus, 10000) and setTimeout(clearInterval, 300000); time
\* is counted in periods of the interval
PollEvery == 10000
PollFor == 300000
Periods == PollFor \div PollEvery

\* no call of makeRequest or pollForReport and no poller of the auth-enabled
\* App is followed
NoCall == [phase |-> "none"]

----------------------------------------------------------------------------
Init ==
    \* the backend may hold a bot of an earlier session, or have deleted it
    /\ \E s \in Statuses \cup {"none", "gone"} :
           server = [b \in BotIds |-> IF b = 1 THEN s ELSE "none"]
    /\ bots = <<>>
    \* localStorage may hold the selection of an earlier session
    /\ storage \in {NoBot} \cup {b \in BotIds : server[b] # "none"}
    \* useState(() => localStorage.getItem('selectedBotId') ...)
    /\ selectedBotId = storage
    /\ isCreatingNewBot = FALSE
    /\ scorecardCache = [b \in BotIds |-> "none"]
    /\ loading = FALSE
    /\ error = FALSE
    /\ pollingIntervals = [b \in BotIds |-> 0]
    /\ intervals = {}
    /\ isMounted = TRUE
    /\ fetchInProgress = {}
    /\ pollReqs = NoneInFlight
    /\ refreshReqs = NoneInFlight
    \* the load effect of the mount
    /\ listReqs = Put(NoneInFlight, [sel |-> selectedBotId,
                                     data |-> ServerList(server)])
    /\ createReqs = NoneInFlight
    /\ deleteReqs = NoneInFlight
    /\ scReqs = NoneInFlight
    /\ analysisReqs = NoneInFlight
    /\ timers = NoneInFlight
    /\ pollerSaw = [b \in BotIds |-> "none"]
    /\ fetchAttempted = {}
    /\ lastFailure = "none"
    /\ http = NoCall
    /\ reportPoll = NoCall
    /\ authApp = NoCall

----------------------------------------------------------------------------
(* The backend's bot status moves on. *)
ServerAdvance(b) ==
    /\ lastFailure' = "none"
    /\ UNCHANGED <<http, reportPoll, authApp>>
    /\ server[b] \in Active
    /\ \E s \in Statuses \ {"PENDING", server[b]} :
           server' = [server EXCEPT ![b] = s]
    /\ UNCHANGED <<client, refs, flight, history>>

\* The backend handles a getBots request in flight only now, after its status
\* or its bots changed: the response carries the list as it is now.
ListServe(r) ==
    /\ lastFailure' = "none"
    /\ UNCHANGED <<http, reportPoll, authApp>>
    /\ r \in DOMAIN listReqs
    /\ r.data # ServerList(server)
    /\ listReqs' = Put(Take(listReqs, r), [r EXCEPT !.data = ServerList(server)])
    /\ UNCHANGED <<server, client, refs, pollReqs, refreshReqs, createReqs,
                   deleteReqs, scReqs, analysisReqs, timers, history>>

----------------------------------------------------------------------------
(* The status poller (startStatusPolling's interval callback). *)

\* a tick of a live interval: the callback up to await pollBotStatus
Tick(x) ==
    /\ lastFailure' = "none"
    /\ UNCHANGED <<http, reportPoll, authApp>>
    /\ x \in intervals
    /\ isMounted
    /\ \E res \in PollResults(server, x.bot) :
           pollReqs' = Put(pollReqs, [bot |-> x.bot, own |-> x.own, res |-> res])
    /\ UNCHANGED <<server, client, refs, refreshReqs, listReqs, createReqs,
                   deleteReqs, scReqs, analysisReqs, timers, history>>
    /\ Bounded'

\* the interval callback giving up (cleanupPolling) when pollBotStatus fails
PollRespondStopsOnFailure(r) ==
    /\ lastFailure' = IF r.res = "fail" THEN "poll" ELSE "none"
    /\ UNCHANGED <<http, reportPoll, authApp>>
    /\ r \in DOMAIN pollReqs
    /\ pollReqs' = Take(pollReqs, r)
    /\ IF r.res \in Statuses
       THEN /\ bots' = SetStatus(bots, r.bot, r.res)
            /\ LET c == IF r.res \in Terminal
                        THEN cleanupPolling(pollingIntervals, intervals, r.bot)
                        ELSE [pi |-> pollingIntervals, iv |-> intervals]
               IN /\ pollingIntervals' = c.pi
                  /\ intervals' = c.iv
            /\ timers' = IF r.res = "COMPLETED"
                         THEN Put(timers, [kind |-> "analysis", bot |-> r.bot,
                                           own |-> r.own])
                         ELSE timers
            /\ pollerSaw' = IF r.res \in Terminal
                            THEN [pollerSaw EXCEPT ![r.bot] = r.res]
                            ELSE pollerSaw
       ELSE /\ LET c == IF r.res = "fail"
                        THEN cleanupPolling(pollingIntervals, intervals, r.bot)
                        ELSE [pi |-> pollingIntervals, iv |-> intervals]
               IN /\ pollingIntervals' = c.pi
                  /\ intervals' = c.iv
            /\ UNCHANGED <<bots, timers, pollerSaw>>
    /\ UNCHANGED <<server, selectedBotId, storage, isCreatingNewBot,
                   scorecardCache, loading, error, isMounted, fetchInProgress,
                   refreshReqs, listReqs, createReqs, deleteReqs, scReqs,
                   analysisReqs, fetchAttempted>>

\* the callback after the await: the response of pollBotStatus
PollRespond(r) ==
    /\ lastFailure' = IF r.res = "fail" THEN "poll" ELSE "none"
    /\ UNCHANGED <<http, reportPoll, authApp>>
    /\ r \in DOMAIN pollReqs
    /\ pollReqs' = Take(pollReqs, r)
    /\ IF r.res \in Statuses
       THEN /\ bots' = SetStatus(bots, r.bot, r.res)
            /\ LET c == IF r.res \in Terminal
                        THEN cleanupPolling(pollingIntervals, intervals, r.bot)
                        ELSE [pi |-> pollingIntervals, iv |-> intervals]
               IN /\ pollingIntervals' = c.pi
                  /\ intervals' = c.iv
            /\ timers' = IF r.res = "COMPLETED"
                         THEN Put(timers, [kind |-> "analysis", bot |-> r.bot,
                                           own |-> r.own])
                         ELSE timers
            /\ pollerSaw' = IF r.res \in Terminal
                            THEN [pollerSaw EXCEPT ![r.bot] = r.res]
                            ELSE pollerSaw
       ELSE UNCHANGED <<bots, pollingIntervals, intervals, timers, pollerSaw>>
    /\ UNCHANGED <<server, selectedBotId, storage, isCreatingNewBot,
                   scorecardCache, loading, error, isMounted, fetchInProgress,
                   refreshReqs, listReqs, createReqs, deleteReqs, scReqs,
                   analysisReqs, fetchAttempted>>

\* the response of triggerAnalysis (the 2 s timer's callback after its await)
AnalysisRespond(r, ok) ==
    /\ lastFailure' = "none"
    /\ UNCHANGED <<http, reportPoll, authApp>>
    /\ r \in DOMAIN analysisReqs
    /\ ~r.manual
    /\ analysisReqs' = Take(analysisReqs, r)
    /\ timers' = IF ok
                 THEN Put(timers, [kind |-> "post", bot |-> r.bot, own |-> r.own])
                 ELSE timers
    /\ UNCHANGED <<server, client, refs, pollReqs, refreshReqs, listReqs,
                   createReqs, deleteReqs, scReqs, history>>

----------------------------------------------------------------------------
(* Timers and the scorecard fetcher. *)

\* a setTimeout callback runs
TimerFire(t) ==
    /\ lastFailure' = "none"
    /\ UNCHANGED <<http, reportPoll, authApp>>
    /\ t \in DOMAIN timers
    /\ timers' = Take(timers, t)
    /\ IF t.kind = "analysis"
       THEN /\ analysisReqs' = Put(analysisReqs, [bot |-> t.bot, own |-> t.own,
                                                    manual |-> FALSE])
            /\ UNCHANGED <<fetchInProgress, scReqs, loading, error, fetchAttempted>>
       ELSE /\ LET f == IF t.kind = "plain" \/ isMounted
                        THEN fetchScorecardData(FetchState, t.bot, t.own)
                        ELSE FetchState
               IN /\ fetchInProgress' = f.fip
                  /\ scReqs' = f.reqs
                  /\ loading' = f.loading
                  /\ error' = f.error
                  /\ fetchAttempted' = Requested(f, t.bot)
            /\ UNCHANGED analysisReqs
    /\ UNCHANGED <<server, bots, selectedBotId, storage, isCreatingNewBot,
                   scorecardCache, pollingIntervals, intervals, isMounted,
                   pollReqs, refreshReqs, listReqs, createReqs, deleteReqs,
                   pollerSaw>>

\* a retry after every response
scheduleRetryAlways(tm, r, res) ==
    Put(tm, [kind |-> "retry", bot |-> r.bot, own |-> r.own])

\* if (data.status === 'processing') setTimeout(..., 5000)
scheduleRetry(tm, r, res) ==
    IF res = "processing"
    THEN Put(tm, [kind |-> "retry", bot |-> r.bot, own |-> r.own])
    ELSE tm

\* fetchScorecardData without its finally block when the request failed
ScRespondNoFinally(r, res) ==
    /\ lastFailure' = IF res = "fail" THEN "fetch" ELSE "none"
    /\ UNCHANGED <<http, reportPoll, authApp>>
    /\ r \in DOMAIN scReqs
    /\ scReqs' = Take(scReqs, r)
    /\ IF res \in ScStatuses
       THEN /\ scorecardCache' = [scorecardCache EXCEPT ![r.bot] = res]
            /\ timers' = scheduleRetry(timers, r, res)
            /\ error' = error
       ELSE /\ error' = IF r.own THEN TRUE ELSE error
            /\ UNCHANGED <<scorecardCache, timers>>
    /\ fetchInProgress' = IF res = "fail" THEN fetchInProgress
                        ELSE fetchInProgress \ {r.bot}
    /\ loading' = IF r.own /\ res # "fail" THEN FALSE ELSE loading
    /\ UNCHANGED <<server, bots, selectedBotId, storage, isCreatingNewBot,
                   pollingIntervals, intervals, isMounted, pollReqs, refreshReqs,
                   listReqs, createReqs, deleteReqs, analysisReqs, history>>

\* fetchScorecardData after its await: the response of getMeetingScorecard
ScRespond(r, res) ==
    /\ lastFailure' = IF res = "fail" THEN "fetch" ELSE "none"
    /\ UNCHANGED <<http, reportPoll, authApp>>
    /\ r \in DOMAIN scReqs
    /\ scReqs' = Take(scReqs, r)
    /\ IF res \in ScStatuses
       THEN /\ scorecardCache' = [scorecardCache EXCEPT ![r.bot] = res]
            /\ timers' = scheduleRetry(timers, r, res)
            /\ error' = error
       ELSE /\ error' = IF r.own THEN TRUE ELSE error
            /\ UNCHANGED <<scorecardCache, timers>>
    /\ fetchInProgress' = fetchInProgress \ {r.bot}
    /\ loading' = IF r.own THEN FALSE ELSE loading
    /\ UNCHANGED <<server, bots, selectedBotId, storage, isCreatingNewBot,
                   pollingIntervals, intervals, isMounted, pollReqs, refreshReqs,
                   listReqs, createReqs, deleteReqs, analysisReqs, history>>

\* the Fetch Scorecard and Refresh buttons: fetchScorecardData()
FetchButton ==
    /\ lastFailure' = "none"
    /\ UNCHANGED <<http, reportPoll, authApp>>
    /\ isMounted
    /\ selectedBotId # NoBot
    /\ FindStatus(bots, selectedBotId) = "COMPLETED"
    /\ ~loading
    /\ LET f == fetchScorecardData(FetchState, selectedBotId, TRUE)
       IN /\ fetchInProgress' = f.fip
          /\ scReqs' = f.reqs
          /\ loading' = f.loading
          /\ error' = f.error
          /\ fetchAttempted' = Requested(f, selectedBotId)
    /\ UNCHANGED <<server, bots, selectedBotId, storage, isCreatingNewBot,
                   scorecardCache, pollingIntervals, intervals, isMounted,
                   pollReqs, refreshReqs, listReqs, createReqs, deleteReqs,
                   analysisReqs, timers, pollerSaw>>
    /\ Bounded'

----------------------------------------------------------------------------
(* Loading the list (the load effect's loadBots after its await). *)

ListRespond(r, ok) ==
    /\ lastFailure' = "none"
    /\ UNCHANGED <<http, reportPoll, authApp>>
    /\ r \in DOMAIN listReqs
    /\ LET data == IF ok THEN r.data ELSE <<>>   \* getBots returns [] on failure
           auto == Len(data) > 0 /\ r.sel = NoBot
           newSel == IF auto THEN data[1].id ELSE selectedBotId
           t1 == IF auto /\ data[1].status = "COMPLETED"
                 THEN Put(timers, [kind |-> "plain", bot |-> data[1].id,
                                   own |-> FALSE])
                 ELSE timers
           p == StartActive([pi |-> pollingIntervals, iv |-> intervals],
                            data, 1, r.sel)
       IN /\ bots' = data
          /\ selectedBotId' = newSel
          /\ storage' = IF auto THEN data[1].id ELSE storage
          /\ timers' = CompletedTimers(t1, data, 1, r.sel)
          /\ pollingIntervals' = p.pi
          /\ intervals' = p.iv
          /\ listReqs' = Effect(Take(listReqs, r), newSel, server)
    /\ UNCHANGED <<server, isCreatingNewBot, scorecardCache, loading, error,
                   isMounted, fetchInProgress, pollReqs, refreshReqs, createReqs,
                   deleteReqs, scReqs, analysisReqs, history>>
    /\ Bounded'

----------------------------------------------------------------------------
(* Creating a bot (handleConfigSubmit). *)

\* the submit button of the ConfigScreen is shown and enabled
CanSubmit ==
    /\ ~loading
    /\ \/ isCreatingNewBot
       \/ /\ selectedBotId # NoBot
          /\ FindStatus(bots, selectedBotId) \in Statuses \ {"COMPLETED"}

\* handleConfigSubmit up to await createBot; the backend creates the bot with
\* some status, or the request fails
Submit ==
    /\ lastFailure' = "none"
    /\ UNCHANGED <<http, reportPoll, authApp>>
    /\ isMounted
    /\ CanSubmit
    /\ loading' = TRUE
    /\ error' = FALSE
    /\ \/ /\ NextId(server) # 0
          /\ \E s \in Statuses :
                /\ server' = [server EXCEPT ![NextId(server)] = s]
                /\ createReqs' = Put(createReqs,
                       [sel |-> selectedBotId, id |-> NextId(server), status |-> s])
       \/ /\ createReqs' = Put(createReqs,
                       [sel |-> selectedBotId, id |-> NoBot, status |-> "fail"])
          /\ UNCHANGED server
    /\ UNCHANGED <<bots, selectedBotId, storage, isCreatingNewBot, scorecardCache,
                   refs, pollReqs, refreshReqs, listReqs, deleteReqs, scReqs,
                   analysisReqs, timers, history>>
    /\ Bounded'

\* handleConfigSubmit without its finally block: loading stays set
CreateRespondNoFinally(r) ==
    /\ lastFailure' = IF r.status \in Statuses THEN "none" ELSE "create"
    /\ UNCHANGED <<http, reportPoll, authApp>>
    /\ r \in DOMAIN createReqs
    /\ IF r.status \in Statuses
       THEN /\ bots' = <<[id |-> r.id, status |-> r.status]>> \o bots
            /\ selectedBotId' = r.id
            /\ storage' = r.id
            /\ isCreatingNewBot' = FALSE
            /\ LET p == IF r.status \in Active
                        THEN startStatusPolling(pollingIntervals, intervals,
                                                r.id, r.id = r.sel)
                        ELSE [pi |-> pollingIntervals, iv |-> intervals]
               IN /\ pollingIntervals' = p.pi
                  /\ intervals' = p.iv
            /\ timers' = IF r.status = "COMPLETED"
                         THEN Put(timers, [kind |-> "plain", bot |-> r.id,
                                           own |-> r.id = r.sel])
                         ELSE timers
            /\ listReqs' = Effect(listReqs, r.id, server)
            /\ error' = error
       ELSE /\ error' = TRUE
            /\ UNCHANGED <<bots, selectedBotId, storage, isCreatingNewBot,
                           pollingIntervals, intervals, timers, listReqs>>
    /\ createReqs' = Take(createReqs, r)
    /\ loading' = loading
    /\ UNCHANGED <<server, scorecardCache, isMounted, fetchInProgress, pollReqs,
                   refreshReqs, deleteReqs, scReqs, analysisReqs, history>>
    /\ Bounded'

\* handleConfigSubmit after the await
CreateRespond(r) ==
    /\ lastFailure' = IF r.status \in Statuses THEN "none" ELSE "create"
    /\ UNCHANGED <<http, reportPoll, authApp>>
    /\ r \in DOMAIN createReqs
    /\ IF r.status \in Statuses
       THEN /\ bots' = <<[id |-> r.id, status |-> r.status]>> \o bots
            /\ selectedBotId' = r.id
            /\ storage' = r.id
            /\ isCreatingNewBot' = FALSE
            /\ LET p == IF r.status \in Active
                        THEN startStatusPolling(pollingIntervals, intervals,
                                                r.id, r.id = r.sel)
                        ELSE [pi |-> pollingIntervals, iv |-> intervals]
               IN /\ pollingIntervals' = p.pi
                  /\ intervals' = p.iv
            /\ timers' = IF r.status = "COMPLETED"
                         THEN Put(timers, [kind |-> "plain", bot |-> r.id,
                                           own |-> r.id = r.sel])
                         ELSE timers
            /\ listReqs' = Effect(listReqs, r.id, server)
            /\ error' = error
       ELSE /\ error' = TRUE
            /\ UNCHANGED <<bots, selectedBotId, storage, isCreatingNewBot,
                           pollingIntervals, intervals, timers, listReqs>>
    /\ createReqs' = Take(createReqs, r)
    /\ loading' = FALSE
    /\ UNCHANGED <<server, scorecardCache, isMounted, fetchInProgress, pollReqs,
                   refreshReqs, deleteReqs, scReqs, analysisReqs, history>>
    /\ Bounded'

\* handleNewBot
NewBot ==
    /\ lastFailure' = "none"
    /\ UNCHANGED <<http, reportPoll, authApp>>
    /\ isMounted
    /\ selectedBotId' = NoBot
    /\ isCreatingNewBot' = TRUE
    /\ error' = FALSE
    /\ listReqs' = Effect(listReqs, NoBot, server)
    /\ UNCHANGED <<server, bots, storage, scorecardCache, loading, refs, pollReqs,
                   refreshReqs, createReqs, deleteReqs, scReqs, analysisReqs,
                   timers, history>>
    /\ Bounded'

----------------------------------------------------------------------------
(* Selecting a bot in the sidebar (handleBotSelect). *)

Select(b) ==
    /\ lastFailure' = "none"
    /\ UNCHANGED <<http, reportPoll, authApp>>
    /\ isMounted
    /\ b \in Ids(bots)
    /\ selectedBotId' = b
    /\ storage' = b
    /\ isCreatingNewBot' = FALSE
    /\ LET st == FindStatus(bots, b)
           f == IF st = "COMPLETED" /\ scorecardCache[b] = "none"
                THEN fetchScorecardData(FetchState, b, b = selectedBotId)
                ELSE FetchState
           p == IF st \in Active
                THEN startStatusPolling(pollingIntervals, intervals, b,
                                        b = selectedBotId)
                ELSE [pi |-> pollingIntervals, iv |-> intervals]
       IN /\ fetchInProgress' = f.fip
          /\ scReqs' = f.reqs
          /\ loading' = f.loading
          /\ error' = f.error
          /\ pollingIntervals' = p.pi
          /\ intervals' = p.iv
          /\ fetchAttempted' = Requested(f, b)
    /\ listReqs' = Effect(listReqs, b, server)
    /\ UNCHANGED <<server, bots, scorecardCache, isMounted, pollReqs, refreshReqs,
                   createReqs, deleteReqs, analysisReqs, timers, pollerSaw>>
    /\ Bounded'

----------------------------------------------------------------------------
(* Deleting a bot (handleDeleteBot). *)

\* handleDeleteBot up to await deleteBot; the backend deletes an existing bot,
\* or the request fails
Delete(b) ==
    /\ lastFailure' = "none"
    /\ UNCHANGED <<http, reportPoll, authApp>>
    /\ isMounted
    /\ b \in Ids(bots)
    /\ \/ /\ server[b] \in Statuses
          /\ server' = [server EXCEPT ![b] = "gone"]
          /\ deleteReqs' = Put(deleteReqs,
                               [bot |-> b, sel |-> selectedBotId, ok |-> TRUE])
       \/ /\ deleteReqs' = Put(deleteReqs,
                               [bot |-> b, sel |-> selectedBotId, ok |-> FALSE])
          /\ UNCHANGED server
    /\ UNCHANGED <<client, refs, pollReqs, refreshReqs, listReqs, createReqs,
                   scReqs, analysisReqs, timers, history>>
    /\ Bounded'

\* handleDeleteBot applying the removal whether or not deleteBot succeeded
DeleteRespondIgnoresFailure(r) ==
    /\ lastFailure' = IF r.ok THEN "none" ELSE "delete"
    /\ UNCHANGED <<http, reportPoll, authApp>>
    /\ r \in DOMAIN deleteReqs
    /\ deleteReqs' = Take(deleteReqs, r)
    /\ IF TRUE
       THEN /\ LET c == cleanupPolling(pollingIntervals, intervals, r.bot)
               IN /\ pollingIntervals' = c.pi
                  /\ intervals' = c.iv
            /\ scorecardCache' = [scorecardCache EXCEPT ![r.bot] = "none"]
            /\ bots' = RemoveBot(bots, r.bot)
            /\ LET newSel == IF r.sel = r.bot THEN NoBot ELSE selectedBotId
               IN /\ selectedBotId' = newSel
                  /\ listReqs' = Effect(listReqs, newSel, server)
            /\ storage' = IF r.sel = r.bot THEN NoBot ELSE storage
       ELSE UNCHANGED <<pollingIntervals, intervals, scorecardCache, bots,
                        selectedBotId, listReqs, storage>>
    /\ UNCHANGED <<server, isCreatingNewBot, loading, error, isMounted,
                   fetchInProgress, pollReqs, refreshReqs, createReqs, scReqs,
                   analysisReqs, timers, history>>
    /\ Bounded'

\* handleDeleteBot after the await
DeleteRespond(r) ==
    /\ lastFailure' = IF r.ok THEN "none" ELSE "delete"
    /\ UNCHANGED <<http, reportPoll, authApp>>
    /\ r \in DOMAIN deleteReqs
    /\ deleteReqs' = Take(deleteReqs, r)
    /\ IF r.ok
       THEN /\ LET c == cleanupPolling(pollingIntervals, intervals, r.bot)
               IN /\ pollingIntervals' = c.pi
                  /\ intervals' = c.iv
            /\ scorecardCache' = [scorecardCache EXCEPT ![r.bot] = "none"]
            /\ bots' = RemoveBot(bots, r.bot)
            /\ LET newSel == IF r.sel = r.bot THEN NoBot ELSE selectedBotId
               IN /\ selectedBotId' = newSel
                  /\ listReqs' = Effect(listReqs, newSel, server)
            /\ storage' = IF r.sel = r.bot THEN NoBot ELSE storage
       ELSE UNCHANGED <<pollingIntervals, intervals, scorecardCache, bots,
                        selectedBotId, listReqs, storage>>
    /\ UNCHANGED <<server, isCreatingNewBot, loading, error, isMounted,
                   fetchInProgress, pollReqs, refreshReqs, createReqs, scReqs,
                   analysisReqs, timers, history>>
    /\ Bounded'

----------------------------------------------------------------------------
(* Refreshing the selected bot's status (refreshBotStatus).  The function   *)
(* is defined for the selected bot; it is modelled as an event that may     *)
(* happen whenever a bot is selected.                                       *)

Refresh ==
    /\ lastFailure' = "none"
    /\ UNCHANGED <<http, reportPoll, authApp>>
    /\ isMounted
    /\ selectedBotId # NoBot
    /\ loading' = TRUE
    /\ error' = FALSE
    /\ \E res \in PollResults(server, selectedBotId) :
           refreshReqs' = Put(refreshReqs, [bot |-> selectedBotId, own |-> TRUE,
                                            res |-> res])
    /\ UNCHANGED <<server, bots, selectedBotId, storage, isCreatingNewBot,
                   scorecardCache, refs, pollReqs, listReqs, createReqs,
                   deleteReqs, scReqs, analysisReqs, timers, history>>
    /\ Bounded'

RefreshRespond(r) ==
    /\ lastFailure' = "none"
    /\ UNCHANGED <<http, reportPoll, authApp>>
    /\ r \in DOMAIN refreshReqs
    /\ refreshReqs' = Take(refreshReqs, r)
    /\ IF r.res \in Statuses
       THEN /\ bots' = SetStatus(bots, r.bot, r.res)
            /\ LET p == IF r.res \in Active
                        THEN startStatusPolling(pollingIntervals, intervals,
                                                r.bot, r.own)
                        ELSE [pi |-> pollingIntervals, iv |-> intervals]
               IN /\ pollingIntervals' = p.pi
                  /\ intervals' = p.iv
            /\ error' = error
       ELSE /\ error' = IF r.res = "fail" THEN TRUE ELSE error
            /\ UNCHANGED <<bots, pollingIntervals, intervals>>
    /\ loading' = FALSE
    /\ UNCHANGED <<server, selectedBotId, storage, isCreatingNewBot,
                   scorecardCache, isMounted, fetchInProgress, pollReqs, listReqs,
                   createReqs, deleteReqs, scReqs, analysisReqs, timers, history>>

----------------------------------------------------------------------------
(* The manual trigger (the onTriggerAnalysis handler App passes to the      *)
(* ScorecardScreen, App.tsx 688-705), for the selected bot whose scorecard  *)
(* is shown.                                                                *)

\* the handler up to await triggerAnalysis
TriggerAnalysis ==
    /\ lastFailure' = "none"
    /\ UNCHANGED <<http, reportPoll, authApp>>
    /\ isMounted
    /\ selectedBotId # NoBot
    /\ FindStatus(bots, selectedBotId) = "COMPLETED"
    /\ scorecardCache[selectedBotId] # "none"
    /\ loading' = TRUE
    /\ analysisReqs' = Put(analysisReqs, [bot |-> selectedBotId, own |-> TRUE,
                                          manual |-> TRUE])
    /\ UNCHANGED <<server, bots, selectedBotId, storage, isCreatingNewBot,
                   scorecardCache, error, refs, pollReqs, refreshReqs, listReqs,
                   createReqs, deleteReqs, scReqs, timers, history>>
    /\ Bounded'

\* the handler setting its 3 s timer whether or not triggerAnalysis succeeded
TriggerRespondAlwaysSchedules(r, ok) ==
    /\ lastFailure' = IF ok THEN "none" ELSE "trigger"
    /\ UNCHANGED <<http, reportPoll, authApp>>
    /\ r \in DOMAIN analysisReqs
    /\ r.manual
    /\ analysisReqs' = Take(analysisReqs, r)
    /\ timers' = Put(timers, [kind |-> "manual", bot |-> r.bot, own |-> TRUE])
    /\ error' = IF ok THEN error ELSE TRUE
    /\ loading' = FALSE
    /\ UNCHANGED <<server, bots, selectedBotId, storage, isCreatingNewBot,
                   scorecardCache, refs, pollReqs, refreshReqs, listReqs,
                   createReqs, deleteReqs, scReqs, history>>

\* the handler after the await: the 3 s timer towards fetchScorecardData, or
\* the catch block; finally setLoading(false)
TriggerRespond(r, ok) ==
    /\ lastFailure' = IF ok THEN "none" ELSE "trigger"
    /\ UNCHANGED <<http, reportPoll, authApp>>
    /\ r \in DOMAIN analysisReqs
    /\ r.manual
    /\ analysisReqs' = Take(analysisReqs, r)
    /\ timers' = IF ok
                 THEN Put(timers, [kind |-> "manual", bot |-> r.bot, own |-> TRUE])
                 ELSE timers
    /\ error' = IF ok THEN error ELSE TRUE
    /\ loading' = FALSE
    /\ UNCHANGED <<server, bots, selectedBotId, storage, isCreatingNewBot,
                   scorecardCache, refs, pollReqs, refreshReqs, listReqs,
                   createReqs, deleteReqs, scReqs, history>>

----------------------------------------------------------------------------
(* Unmounting the component (the cleanup of the effect at App.tsx 594-599). *)

Unmount ==
    /\ lastFailure' = "none"
    /\ UNCHANGED <<http, reportPoll, authApp>>
    /\ isMounted
    /\ isMounted' = FALSE
    /\ LET c == cleanupPolling(pollingIntervals, intervals, NoBot)
       IN /\ pollingIntervals' = c.pi
          /\ intervals' = c.iv
    /\ UNCHANGED <<server, client, fetchInProgress, flight, history>>

----------------------------------------------------------------------------
Next ==
    \/ \E b \in BotIds : ServerAdvance(b)
    \/ \E r \in DOMAIN listReqs : ListServe(r)
    \/ \E x \in intervals : Tick(x)
    \/ \E r \in DOMAIN pollReqs : PollRespond(r)
    \/ \E r \in DOMAIN analysisReqs, ok \in BOOLEAN : AnalysisRespond(r, ok)
    \/ \E t \in DOMAIN timers : TimerFire(t)
    \/ \E r \in DOMAIN scReqs, res \in ScStatuses \cup {"fail"} : ScRespond(r, res)
    \/ FetchButton
    \/ \E r \in DOMAIN listReqs, ok \in BOOLEAN : ListRespond(r, ok)
    \/ Submit
    \/ \E r \in DOMAIN createReqs : CreateRespond(r)
    \/ NewBot
    \/ \E b \in BotIds : Select(b)
    \/ \E b \in BotIds : Delete(b)
    \/ \E r \in DOMAIN deleteReqs : DeleteRespond(r)
    \/ Refresh
    \/ \E r \in DOMAIN refreshReqs : RefreshRespond(r)
    \/ Unmount

Spec == Init /\ [][Next]_vars

----------------------------------------------------------------------------
(* The component with a backend whose scorecards stay 'processing': every   *)
(* getMeetingScorecard response has that status.  The event loop runs every *)
(* pending setTimeout callback and the backend answers every scorecard      *)
(* request.                                                                 *)

NextProcessing ==
    \/ \E b \in BotIds : ServerAdvance(b)
    \/ \E r \in DOMAIN listReqs : ListServe(r)
    \/ \E x \in intervals : Tick(x)
    \/ \E r \in DOMAIN pollReqs : PollRespond(r)
    \/ \E r \in DOMAIN analysisReqs, ok \in BOOLEAN : AnalysisRespond(r, ok)
    \/ \E t \in DOMAIN timers : TimerFire(t)
    \/ \E r \in DOMAIN scReqs : ScRespond(r, "processing")
    \/ FetchButton
    \/ \E r \in DOMAIN listReqs, ok \in BOOLEAN : ListRespond(r, ok)
    \/ Submit
    \/ \E r \in DOMAIN createReqs : CreateRespond(r)
    \/ NewBot
    \/ \E b \in BotIds : Select(b)
    \/ \E b \in BotIds : Delete(b)
    \/ \E r \in DOMAIN deleteReqs : DeleteRespond(r)
    \/ Refresh
    \/ \E r \in DOMAIN refreshReqs : RefreshRespond(r)
    \/ Unmount

SpecProcessing ==
    /\ Init
    /\ [][NextProcessing]_vars
    /\ WF_vars(\E t \in DOMAIN timers : TimerFire(t))
    /\ WF_vars(\E r \in DOMAIN scReqs : ScRespond(r, "processing"))

----------------------------------------------------------------------------
(* The component driven through its rendered controls only: no control of   *)
(* this revision calls refreshBotStatus, so its steps are left out.         *)

NextUI ==
    \/ \E b \in BotIds : ServerAdvance(b)
    \/ \E r \in DOMAIN listReqs : ListServe(r)
    \/ \E x \in intervals : Tick(x)
    \/ \E r \in DOMAIN pollReqs : PollRespond(r)
    \/ \E r \in DOMAIN analysisReqs, ok \in BOOLEAN : AnalysisRespond(r, ok)
    \/ \E t \in DOMAIN timers : TimerFire(t)
    \/ \E r \in DOMAIN scReqs, res \in ScStatuses \cup {"fail"} : ScRespond(r, res)
    \/ FetchButton
    \/ \E r \in DOMAIN listReqs, ok \in BOOLEAN : ListRespond(r, ok)
    \/ Submit
    \/ \E r \in DOMAIN createReqs : CreateRespond(r)
    \/ NewBot
    \/ \E b \in BotIds : Select(b)
    \/ \E b \in BotIds : Delete(b)
    \/ \E r \in DOMAIN deleteReqs : DeleteRespond(r)
    \/ Unmount

SpecUI == Init /\ [][NextUI]_vars

----------------------------------------------------------------------------
(* The component with the ScorecardScreen's Trigger Analysis control: the   *)
(* rendered controls and the manual trigger handler.                        *)

NextTrigger ==
    \/ \E b \in BotIds : ServerAdvance(b)
    \/ \E r \in DOMAIN listReqs : ListServe(r)
    \/ \E x \in intervals : Tick(x)
    \/ \E r \in DOMAIN pollReqs : PollRespond(r)
    \/ \E r \in DOMAIN analysisReqs, ok \in BOOLEAN : AnalysisRespond(r, ok)
    \/ \E t \in DOMAIN timers : TimerFire(t)
    \/ \E r \in DOMAIN scReqs, res \in ScStatuses \cup {"fail"} : ScRespond(r, res)
    \/ FetchButton
    \/ \E r \in DOMAIN listReqs, ok \in BOOLEAN : ListRespond(r, ok)
    \/ Submit
    \/ \E r \in DOMAIN createReqs : CreateRespond(r)
    \/ NewBot
    \/ \E b \in BotIds : Select(b)
    \/ \E b \in BotIds : Delete(b)
    \/ \E r \in DOMAIN deleteReqs : DeleteRespond(r)
    \/ TriggerAnalysis
    \/ \E r \in DOMAIN analysisReqs, ok \in BOOLEAN : TriggerRespond(r, ok)
    \/ Unmount

SpecTrigger == Init /\ [][NextTrigger]_vars

----------------------------------------------------------------------------
(* The component mounted over an empty backend: every bot there is was      *)
(* created by handleConfigSubmit.                                           *)

InitFresh == Init /\ \A b \in BotIds : server[b] = "none"

SpecFresh == InitFresh /\ [][NextUI]_vars

----------------------------------------------------------------------------
(* One call of ApiService.makeRequest, for every configured base URL,       *)
(* endpoint and result of fetch; the component is not running.               *)

InitApi ==
    /\ server = [b \in BotIds |-> "none"]
    /\ bots = <<>>
    /\ storage = NoBot
    /\ selectedBotId = NoBot
    /\ isCreatingNewBot = FALSE
    /\ scorecardCache = [b \in BotIds |-> "none"]
    /\ loading = FALSE
    /\ error = FALSE
    /\ pollingIntervals = [b \in BotIds |-> 0]
    /\ intervals = {}
    /\ isMounted = TRUE
    /\ fetchInProgress = {}
    /\ pollReqs = NoneInFlight
    /\ refreshReqs = NoneInFlight
    /\ listReqs = NoneInFlight
    /\ createReqs = NoneInFlight
    /\ deleteReqs = NoneInFlight
    /\ scReqs = NoneInFlight
    /\ analysisReqs = NoneInFlight
    /\ timers = NoneInFlight
    /\ pollerSaw = [b \in BotIds |-> "none"]
    /\ fetchAttempted = {}
    /\ lastFailure = "none"
    /\ reportPoll = NoCall
    /\ authApp = NoCall
    /\ \E o \in Origins, x \in BaseSuffixes, e \in Endpoints :
           http = [phase |-> "called", origin |-> o, base |-> o \o x, endpoint |-> e]

\* const url = constructUrl(API_BASE_URL, endpoint)
Construct ==
    /\ http.phase = "called"
    /\ http' = [phase |-> "sent", origin |-> http.origin, base |-> http.base,
                endpoint |-> http.endpoint,
                url |-> constructUrl(http.base, http.endpoint)]
    /\ UNCHANGED <<server, client, refs, flight, history, lastFailure, reportPoll,
                   authApp>>

\* fetch settles and makeRequest returns or throws
Settle(res) ==
    /\ http.phase = "sent"
    /\ http' = [phase |-> "done", origin |-> http.origin, base |-> http.base,
                endpoint |-> http.endpoint, url |-> http.url,
                result |-> res, outcome |-> makeRequest(res)]
    /\ UNCHANGED <<server, client, refs, flight, history, lastFailure, reportPoll,
                   authApp>>

NextApi ==
    \/ Construct
    \/ \E res \in FetchResults : Settle(res)

SpecApi == InitApi /\ [][NextApi]_vars

----------------------------------------------------------------------------
(* One call of ApiService.pollForReport(meetingId, maxAttempts); the         *)
(* component is not running.  The event loop runs every timer and every      *)
(* getReport request settles.                                                *)

InitReport ==
    /\ server = [b \in BotIds |-> "none"]
    /\ bots = <<>>
    /\ storage = NoBot
    /\ selectedBotId = NoBot
    /\ isCreatingNewBot = FALSE
    /\ scorecardCache = [b \in BotIds |-> "none"]
    /\ loading = FALSE
    /\ error = FALSE
    /\ pollingIntervals = [b \in BotIds |-> 0]
    /\ intervals = {}
    /\ isMounted = TRUE
    /\ fetchInProgress = {}
    /\ pollReqs = NoneInFlight
    /\ refreshReqs = NoneInFlight
    /\ listReqs = NoneInFlight
    /\ createReqs = NoneInFlight
    /\ deleteReqs = NoneInFlight
    /\ scReqs = NoneInFlight
    /\ analysisReqs = NoneInFlight
    /\ timers = NoneInFlight
    /\ pollerSaw = [b \in BotIds |-> "none"]
    /\ fetchAttempted = {}
    /\ lastFailure = "none"
    /\ http = NoCall
    /\ authApp = NoCall
    \* let attempt = 0; let delay = 2000
    /\ \E m \in BotIds, n \in 0..MaxAttempts :
           reportPoll = [phase |-> "loop", meetingId |-> m, maxAttempts |-> n,
                         attempt |-> 0, delay |-> Ms(StartDelay), requests |-> 0,
                         wait |-> 0, last |-> "none", message |-> ""]

\* while (attempt < maxAttempts): await this.getReport(meetingId)
GetReport ==
    /\ reportPoll.phase = "loop"
    /\ reportPoll.attempt < reportPoll.maxAttempts
    /\ reportPoll' = [reportPoll EXCEPT !.phase = "awaiting",
                                        !.requests = @ + 1]
    /\ UNCHANGED <<server, client, refs, flight, history, lastFailure, http,
                   authApp>>

\* getReport settled: return report, or await wait(10000), or await wait(delay)
ReportRespond(res) ==
    /\ reportPoll.phase = "awaiting"
    /\ reportPoll' =
           IF res = "ready"
           THEN [reportPoll EXCEPT !.phase = "returned", !.last = res]
           ELSE [reportPoll EXCEPT !.phase = "waiting", !.last = res,
                                   !.wait = IF res = "started"
                                            THEN Ms(StartedWait)
                                            ELSE reportPoll.delay]
    /\ UNCHANGED <<server, client, refs, flight, history, lastFailure, http,
                   authApp>>

\* the wait is over, and a failed request is not counted as an attempt
WaitDoneFailureNotCounted ==
    /\ reportPoll.phase = "waiting"
    /\ reportPoll' =
           [reportPoll EXCEPT
                !.phase = "loop",
                !.delay = IF reportPoll.last = "started" THEN @ ELSE Backoff(@),
                !.attempt = IF reportPoll.last = "fail" THEN @ ELSE @ + 1]
    /\ UNCHANGED <<server, client, refs, flight, history, lastFailure, http,
                   authApp>>

\* the wait is over: the new delay (not after the fixed wait of a STARTED
\* meeting) and attempt++
WaitDone ==
    /\ reportPoll.phase = "waiting"
    /\ reportPoll' =
           [reportPoll EXCEPT
                !.phase = "loop",
                !.delay = IF reportPoll.last = "started" THEN @ ELSE Backoff(@),
                !.attempt = @ + 1]
    /\ UNCHANGED <<server, client, refs, flight, history, lastFailure, http,
                   authApp>>

\* the loop is left: throw new Error('Report polling timed out')
TimeOut ==
    /\ reportPoll.phase = "loop"
    /\ ~(reportPoll.attempt < reportPoll.maxAttempts)
    /\ reportPoll' = [reportPoll EXCEPT !.phase = "threw",
                                        !.message = "Report polling timed out"]
    /\ UNCHANGED <<server, client, refs, flight, history, lastFailure, http,
                   authApp>>

NextReport ==
    \/ GetReport
    \/ \E res \in ReportResults : ReportRespond(res)
    \/ WaitDone
    \/ TimeOut

SpecReport == InitReport /\ [][NextReport]_vars /\ WF_vars(NextReport)

----------------------------------------------------------------------------
(* The status poller of the auth-enabled App revision                        *)
(* (src/unnamed/part_005 381-663) for one bot, from the call of              *)
(* startStatusPolling(id) in handleConfigSubmit on.  The map-based           *)
(* component is not running.                                                 *)

InitAuth ==
    /\ server = [b \in BotIds |-> "none"]
    /\ bots = <<>>
    /\ storage = NoBot
    /\ selectedBotId = NoBot
    /\ isCreatingNewBot = FALSE
    /\ scorecardCache = [b \in BotIds |-> "none"]
    /\ loading = FALSE
    /\ error = FALSE
    /\ pollingIntervals = [b \in BotIds |-> 0]
    /\ intervals = {}
    /\ isMounted = TRUE
    /\ fetchInProgress = {}
    /\ pollReqs = NoneInFlight
    /\ refreshReqs = NoneInFlight
    /\ listReqs = NoneInFlight
    /\ createReqs = NoneInFlight
    /\ deleteReqs = NoneInFlight
    /\ scReqs = NoneInFlight
    /\ analysisReqs = NoneInFlight
    /\ timers = NoneInFlight
    /\ pollerSaw = [b \in BotIds |-> "none"]
    /\ fetchAttempted = {}
    /\ lastFailure = "none"
    /\ http = NoCall
    /\ reportPoll = NoCall
    \* createBot returned the bot PENDING or STARTED (part_005 455-457)
    /\ \E b \in BotIds, s \in Active :
           authApp = [phase |-> "polling", bot |-> b, backend |-> s, status |-> s,
                      live |-> TRUE, now |-> 0, reqs |-> NoneInFlight,
                      issuedAt |-> 0, reported |-> "none", fetchTimers |-> 0]

\* the backend's status of the bot moves on
AuthServerAdvance ==
    /\ authApp.phase = "polling"
    /\ authApp.backend \in Active
    /\ \E s \in Statuses \ {"PENDING", authApp.backend} :
           authApp' = [authApp EXCEPT !.backend = s]
    /\ UNCHANGED <<server, client, refs, flight, history, lastFailure, http,
                   reportPoll>>

\* a period of the interval passes and pollStatus runs up to its await
AuthTick ==
    /\ authApp.phase = "polling"
    /\ authApp.live
    /\ authApp.now < Periods
    /\ Size(authApp.reqs) < MaxPending
    /\ \E res \in PollResults([b \in BotIds |-> authApp.backend], authApp.bot) :
           authApp' = [authApp EXCEPT !.now = @ + 1,
                                      !.issuedAt = authApp.now + 1,
                                      !.reqs = Put(@, [res |-> res])]
    /\ UNCHANGED <<server, client, refs, flight, history, lastFailure, http,
                   reportPoll>>

\* pollStatus after its await
AuthPollRespond ==
    /\ authApp.phase = "polling"
    /\ \E r \in DOMAIN authApp.reqs :
           authApp' =
               IF r.res \in Statuses
               THEN [authApp EXCEPT
                         !.reqs = Take(@, r),
                         !.status = r.res,
                         !.reported = IF r.res = "COMPLETED" THEN "COMPLETED" ELSE @,
                         !.fetchTimers = IF r.res = "COMPLETED"
                                         THEN Min(@ + 1, MaxPending) ELSE @]
               ELSE [authApp EXCEPT !.reqs = Take(@, r)]
    /\ UNCHANGED <<server, client, refs, flight, history, lastFailure, http,
                   reportPoll>>

\* the 300000 ms timer: clearInterval(interval); it runs after the tick of
\* the same instant or before it
AuthExpire ==
    /\ authApp.phase = "polling"
    /\ authApp.live
    /\ authApp.now >= Periods - 1
    /\ authApp' = [authApp EXCEPT !.live = FALSE, !.now = Periods]
    /\ UNCHANGED <<server, client, refs, flight, history, lastFailure, http,
                   reportPoll>>

NextAuth ==
    \/ AuthServerAdvance
    \/ AuthTick
    \/ AuthPollRespond
    \/ AuthExpire

SpecAuth == InitAuth /\ [][NextAuth]_vars

----------------------------------------------------------------------------
(* Properties. *)

\* handleDeleteBot has applied a successful delete of b: the backend deleted b
\* and the response is no longer in flight
Deleted(b) ==
    /\ server[b] = "gone"
    /\ \A r \in DOMAIN deleteReqs : ~(r.bot = b /\ r.ok)

LiveFor(b) == {x \in intervals : x.bot = b}

\* a poller tick issues a poll-status request for b in this step
TickIssued(b) == CountBot(pollReqs', b) > CountBot(pollReqs, b)

\* C1: at most one live status-poller interval per bot id: the live intervals
\* of an id are exactly the entry pollingIntervals stores for it.
C1_OnePollerPerBot ==
    \A b \in BotIds :
        /\ {x.h : x \in LiveFor(b)} =
               (IF pollingIntervals[b] = 0 THEN {} ELSE {pollingIntervals[b]})
        /\ Cardinality(LiveFor(b)) <= 1

\* the live poller of a bot is one that replaced an earlier poller of the bot
\* (its handle is not the first one) and a tick of a poller is still in flight
C1_Witness ==
    \E x \in intervals :
        /\ x.h > MaxBots
        /\ pollingIntervals[x.bot] = x.h
        /\ CountBot(pollReqs, x.bot) > 0

\* C2: when handleDeleteBot(id) completes after a successful delete, the bot
\* list has no record of id, no poller entry or live interval for id is left,
\* the scorecard cache has no entry for id and, if id was the selected bot,
\* the selection is null and the persisted key is removed.
C2_DeleteClearsAll ==
    [][\A r \in DOMAIN deleteReqs :
           (r.ok /\ DeleteRespond(r)) =>
               /\ r.bot \notin Ids(bots')
               /\ pollingIntervals'[r.bot] = 0
               /\ \A x \in intervals' : x.bot # r.bot
               /\ scorecardCache'[r.bot] = "none"
               /\ (selectedBotId = r.bot =>
                       selectedBotId' = NoBot /\ storage' = NoBot)]_vars

\* C3: once handleDeleteBot has applied a successful delete of id, no poller
\* tick issues a poll-status request for id any more.
C3_NoPollAfterDelete ==
    [][\A b \in BotIds : Deleted(b) => ~TickIssued(b)]_vars

\* C4: after a successful delete of id no later response makes a bot record or
\* a scorecard-cache entry for id reappear.
C4_NoResurrection ==
    \A b \in BotIds :
        Deleted(b) => b \notin Ids(bots) /\ scorecardCache[b] = "none"

\* the poller's chain towards the scorecard fetch of b: the 2 s timer, the
\* triggerAnalysis request and the 3 s timer
PostTimers(tm, b) ==
    SumOver(tm, {t \in DOMAIN tm : t.kind = "post" /\ t.bot = b})

\* C5: a poller whose bot reaches COMPLETED leads to a scorecard fetch for the
\* bot (the triggerAnalysis request it issues is followed by the fetch timer,
\* whatever the outcome of the request), and no poller tick issues a
\* poll-status request for the bot afterwards.
C5_OneFetchSequence ==
    [][/\ \A r \in DOMAIN analysisReqs :
              analysisReqs' = Take(analysisReqs, r) =>
                  PostTimers(timers', r.bot) = PostTimers(timers, r.bot) + 1
       /\ \A b \in BotIds :
              pollerSaw[b] = "COMPLETED" => ~TickIssued(b)]_vars

\* C6: a poller tick that receives a terminal new status sets it on the bot's
\* records and cancels the interval of the id, so no interval is left to issue
\* a status request; for FAILED nothing towards a scorecard fetch is started.
C6_TerminalStopsPoller ==
    [][\A r \in DOMAIN pollReqs :
           (r.res \in Terminal /\ PollRespond(r)) =>
               /\ \A i \in 1..Len(bots') :
                      bots'[i].id = r.bot => bots'[i].status = r.res
               /\ pollingIntervals'[r.bot] = 0
               /\ LiveFor(r.bot)' = {}
               /\ (r.res = "FAILED" =>
                       /\ timers' = timers
                       /\ analysisReqs' = analysisReqs
                       /\ scReqs' = scReqs)]_vars

\* a tick has handled FAILED for a listed bot
C6_Witness ==
    \E b \in BotIds :
        /\ pollerSaw[b] = "FAILED"
        /\ FindStatus(bots, b) = "FAILED"
        /\ pollingIntervals[b] = 0

\* C7: at no time are two poll-status requests of the poller of one bot id in
\* flight.
C7_TicksSerialized ==
    \A b \in BotIds : CountBot(pollReqs, b) <= 1

\* C8: after a scorecard response with status 'processing' exactly one retry
\* timer is added; after a response with any other status the cache holds the
\* response and no timer is added.
C8_RetryOnlyWhileProcessing ==
    [][\A r \in DOMAIN scReqs : \A res \in ScStatuses :
           ScRespond(r, res) =>
               /\ scorecardCache'[r.bot] = res
               /\ IF res = "processing"
                  THEN timers' = Put(timers, [kind |-> "retry", bot |-> r.bot,
                                              own |-> r.own])
                  ELSE timers' = timers]_vars

\* a 'processing' response is cached and its retry is pending
C8_Witness ==
    \E t \in DOMAIN timers :
        t.kind = "retry" /\ scorecardCache[t.bot] = "processing"

FetchIssued == Size(scReqs') > Size(scReqs)

\* C10: while the scorecard of a meeting stays 'processing' the fetcher stops
\* issuing requests after finitely many attempts: from some point on no step
\* issues a getMeetingScorecard request.
C10_RetriesEnd == <>[][~FetchIssued]_vars

\* no timer is pending, no request is in flight and no interval is live: the
\* component does nothing more until the user acts
Quiet == Pending = 0 /\ intervals = {}

\* C11: every bot whose record in the list becomes COMPLETED eventually has a
\* getMeetingScorecard request issued for its id, also when the status came
\* through the poller and the triggerAnalysis request failed: once the mounted
\* component has come to rest with the record COMPLETED after a poller tick
\* reported it, a request for the id has been issued.
C11_CompletedGetsFetch ==
    \A b \in BotIds :
        (isMounted /\ Quiet /\ FindStatus(bots, b) = "COMPLETED"
                   /\ pollerSaw[b] = "COMPLETED")
            => b \in fetchAttempted

\* C12: the scorecard cache has an entry for an id only if the bot record with
\* that id is COMPLETED: a listed bot that is PENDING, STARTED or FAILED has no
\* cached scorecard.
C12_CacheOnlyForCompleted ==
    \A b \in BotIds :
        FindStatus(bots, b) \in Statuses \ {"COMPLETED"} =>
            scorecardCache[b] = "none"

\* C13: the bot list holds at most one record per bot id, also when a createBot
\* response and a getBots response in flight interleave.  (The scorecard cache
\* is a function of the id, so it holds one entry per id by construction.)
C13_OneRecordPerId ==
    \A i, j \in 1..Len(bots) : bots[i].id = bots[j].id => i = j

\* C14: if the delete request fails, handleDeleteBot changes no local state:
\* the bot list, the selection, the persisted selection, the scorecard cache
\* and the poller of the id are as before.
C14_FailedDeleteChangesNothing ==
    [][\A r \in DOMAIN deleteReqs :
           (~r.ok /\ DeleteRespond(r)) =>
               /\ bots' = bots
               /\ selectedBotId' = selectedBotId
               /\ storage' = storage
               /\ scorecardCache' = scorecardCache
               /\ pollingIntervals' = pollingIntervals
               /\ intervals' = intervals]_vars

\* a failed delete was just handled and its bot is still listed, selected and
\* polled
C14_Witness ==
    \E b \in BotIds :
        /\ lastFailure = "delete"
        /\ b \in Ids(bots)
        /\ selectedBotId = b
        /\ storage = b
        /\ \E x \in intervals : x.bot = b /\ pollingIntervals[b] = x.h

\* a failed tick leaves the pollers and the registry as they were
FailedTickKeepsState ==
    \A r \in DOMAIN pollReqs :
        (r.res = "fail" /\ PollRespond(r)) =>
            /\ pollingIntervals' = pollingIntervals
            /\ intervals' = intervals
            /\ bots' = bots
            /\ scorecardCache' = scorecardCache
            /\ selectedBotId' = selectedBotId
            /\ timers' = timers

\* the tick of every live interval of the mounted component can issue its
\* poll-status request (as long as the model has room for a request)
LiveIntervalsTick ==
    \A x \in intervals : (isMounted /\ Pending < MaxPending) => ENABLED Tick(x)

\* C15: a failed poll-status request of a poller tick cancels no poller and
\* changes no state of the registry (the intervals and their entries, the bot
\* list, the cache and the selection stay as they were and no timer is set),
\* and the next tick of the interval issues a new poll-status request.
C15_FailedTickKeepsPoller ==
    [][FailedTickKeepsState]_vars /\ []LiveIntervalsTick

\* after a failed tick was handled the interval of the bot is live and
\* registered, and its next tick can issue a request
C15_Witness ==
    \E x \in intervals :
        /\ lastFailure = "poll"
        /\ isMounted
        /\ pollingIntervals[x.bot] = x.h
        /\ FindStatus(bots, x.bot) \in Active
        /\ ENABLED Tick(x)

\* handleConfigSubmit has handled a successful createBot response with id N and
\* status S: the list has a record of N with status S, N is selected, and a
\* poller of N is live exactly if S is PENDING or STARTED
CreateApplied ==
    \A r \in DOMAIN createReqs :
        (r.status \in Statuses /\ CreateRespond(r)) =>
            /\ FindStatus(bots', r.id) = r.status
            /\ selectedBotId' = r.id
            /\ (r.status \in Active <=>
                    \E x \in intervals' :
                        x.bot = r.id /\ pollingIntervals'[r.id] = x.h)

\* once the mounted component has come to rest after a poller tick reported
\* COMPLETED for a listed bot, its record is COMPLETED and a scorecard request
\* for it has been issued
CompletedHandled ==
    \A b \in BotIds :
        (isMounted /\ Quiet /\ pollerSaw[b] = "COMPLETED" /\ b \in Ids(bots)) =>
            FindStatus(bots, b) = "COMPLETED" /\ b \in fetchAttempted

\* C16: after a successful createBot with id N and status S the list has a
\* record of N with status S and N is selected; a poller of N is started iff S
\* is PENDING or STARTED; when a later poll response reports COMPLETED, the
\* record of N is COMPLETED and a scorecard fetch for N is issued.
C16_CreateThenComplete ==
    [][CreateApplied]_vars /\ []CompletedHandled

\* C17: the unmount clears every poller interval and empties pollingIntervals,
\* and once the component is unmounted no poller tick issues a poll-status
\* request for any id.
C17_UnmountStopsPolling ==
    [][/\ (isMounted /\ ~isMounted') =>
              /\ intervals' = {}
              /\ \A b \in BotIds : pollingIntervals'[b] = 0
       /\ ~isMounted => \A b \in BotIds : ~TickIssued(b)]_vars

\* the component is unmounted while a getBots response that arrived after the
\* unmount has registered an interval again; its ticks issue nothing
C17_Witness ==
    /\ ~isMounted
    /\ \E x \in intervals : pollingIntervals[x.bot] = x.h
    /\ Size(pollReqs) = 0

\* C18: the poller checks before each tick that the bot list has a record of
\* its id and cancels itself otherwise: whenever the list has no record of an
\* id (removed by a delete or replaced away by a reload), no poller tick
\* issues a poll-status request for the id.
C18_NoTickForAbsentBot ==
    [][\A b \in BotIds : b \notin Ids(bots) => ~TickIssued(b)]_vars

\* the URL of a call whose endpoint starts with '/api/' is the origin of the
\* base followed by the endpoint
UrlIsOriginThenEndpoint ==
    (http.phase \in {"sent", "done"} /\ StartsWith(http.endpoint, ApiPrefix)) =>
        http.url = http.origin \o http.endpoint

\* C19: constructUrl never doubles the shared path prefix: for every base with
\* or without a trailing slash and with or without a trailing '/api' segment
\* and every endpoint starting with '/api/', the URL has '/api/' exactly where
\* the endpoint puts it (it is the origin followed by the endpoint), has no
\* '/api/api/' and keeps the '://' of the protocol.
C19_NoDoubledPrefix ==
    /\ UrlIsOriginThenEndpoint
    /\ (http.phase \in {"sent", "done"} /\ StartsWith(http.endpoint, ApiPrefix)) =>
           /\ ~Includes(http.url, DoubledApi)
           /\ Includes(http.url, ProtocolMark)

\* the body of a response carries a server-provided message
CarriesMessage(res) ==
    res.body.parses /\ res.body.hasMessage /\ res.body.message # ""

C21_FailedCreateIsCaught ==
    [][\A r \in DOMAIN createReqs :
           (r.status = "fail" /\ CreateRespond(r)) =>
               /\ error'
               /\ ~loading'
               /\ bots' = bots
               /\ selectedBotId' = selectedBotId
               /\ storage' = storage
               /\ isCreatingNewBot' = isCreatingNewBot
               /\ pollingIntervals' = pollingIntervals
               /\ intervals' = intervals
               /\ timers' = timers
               /\ scReqs' = scReqs
               /\ fetchInProgress' = fetchInProgress
               /\ listReqs' = listReqs]_vars

\* a failed createBot was just handled on the new-bot screen: the error is
\* shown, nothing loads and the list and pollers hold the earlier bot only
C21_Witness ==
    /\ lastFailure = "create"
    /\ error
    /\ ~loading
    /\ isCreatingNewBot
    /\ selectedBotId = NoBot
    /\ Len(bots) = 1
    /\ \E x \in intervals : pollingIntervals[x.bot] = x.h

\* C22: the persisted selection is the current selection: the value stored
\* under 'selectedBotId' equals selectedBotId, and the key is absent when
\* nothing is selected, so that a reload starts with the selection it ended
\* with.
C22_StorageIsSelection == storage = selectedBotId

\* the timers that call fetchScorecardData for b after a manual trigger
ManualTimers(tm, b) ==
    SumOver(tm, {t \in DOMAIN tm : t.kind = "manual" /\ t.bot = b})

\* C23: the manual trigger first issues a triggerAnalysis request for the
\* selected bot id and schedules nothing yet; when the request succeeds it
\* sets exactly one timer towards the scorecard fetch of the same id and
\* issues no other request; when the request fails the error is set and no
\* timer is set; the timer's callback calls fetchScorecardData for that id.
C23_TriggerThenFetch ==
    [][/\ TriggerAnalysis =>
              /\ CountBot(analysisReqs', selectedBotId)
                     = CountBot(analysisReqs, selectedBotId) + 1
              /\ timers' = timers
              /\ scReqs' = scReqs
       /\ \A r \in DOMAIN analysisReqs : \A ok \in BOOLEAN :
              TriggerRespond(r, ok) =>
                  /\ scReqs' = scReqs
                  /\ ~loading'
                  /\ IF ok
                     THEN /\ timers' = Put(timers, [kind |-> "manual",
                                                   bot |-> r.bot, own |-> TRUE])
                          /\ ManualTimers(timers', r.bot)
                                 = ManualTimers(timers, r.bot) + 1
                          /\ error' = error
                     ELSE /\ timers' = timers
                          /\ error'
       /\ \A t \in DOMAIN timers :
              (t.kind = "manual" /\ TimerFire(t) /\ isMounted
                   /\ t.bot \notin fetchInProgress) =>
                  CountBot(scReqs', t.bot) = 1]_vars

\* a manual trigger has failed: the error is shown, loading is over and no
\* timer of the trigger is pending
C23_Witness ==
    /\ lastFailure = "trigger"
    /\ error
    /\ ~loading
    /\ \A b \in BotIds : ManualTimers(timers, b) = 0
    /\ selectedBotId # NoBot
    /\ scorecardCache[selectedBotId] # "none"

\* pollForReport has returned or thrown
ReportPollEnded == reportPoll.phase \in {"returned", "threw"}

\* the requests issued are the attempts counted, plus the one not yet counted
ReportRequestsCounted ==
    reportPoll.phase # "none" =>
        /\ reportPoll.requests <= reportPoll.maxAttempts
        /\ reportPoll.requests =
               reportPoll.attempt
               + (IF reportPoll.phase \in {"awaiting", "waiting", "returned"}
                  THEN 1 ELSE 0)
        /\ (reportPoll.phase = "returned" => reportPoll.last = "ready")
        /\ (reportPoll.phase = "threw" =>
                /\ reportPoll.message = "Report polling timed out"
                /\ reportPoll.attempt = reportPoll.maxAttempts
                /\ reportPoll.requests = reportPoll.maxAttempts)
        /\ reportPoll.delay >= Ms(StartDelay)
        /\ reportPoll.delay <= Ms(MaxDelay)

\* a step of pollForReport: a response with reports ends the call at once, a
\* failed request is counted as one attempt, the delay does not decrease, and
\* a call that ended issues nothing more
ReportPollStep ==
    /\ (reportPoll.phase = "awaiting" /\ reportPoll'.last = "ready") =>
           reportPoll'.phase = "returned"
    /\ (reportPoll.phase = "waiting" /\ reportPoll.last = "fail") =>
           reportPoll'.attempt = reportPoll.attempt + 1
    /\ reportPoll.phase # "none" => reportPoll'.delay >= reportPoll.delay
    /\ ReportPollEnded => reportPoll' = reportPoll

\* C24: pollForReport(meetingId, maxAttempts) terminates; it issues at most
\* maxAttempts getReport requests, returns the first response with reports
\* without a further request, counts a failed request as one attempt and
\* otherwise throws 'Report polling timed out' after exactly maxAttempts
\* attempts; its delay starts at 2000 ms, never decreases and never exceeds
\* 30000 ms.
C24_PollForReportTerminates ==
    /\ reportPoll.delay = Ms(StartDelay)
    /\ []ReportRequestsCounted
    /\ [][ReportPollStep]_vars
    /\ <>ReportPollEnded

\* the call has timed out after the largest number of attempts, some of them
\* failed requests, with the delay at its cap
C24_Witness ==
    /\ reportPoll.phase = "threw"
    /\ reportPoll.maxAttempts = MaxAttempts
    /\ reportPoll.requests = MaxAttempts
    /\ reportPoll.last = "fail"
    /\ reportPoll.delay = Ms(MaxDelay)

\* a tick of the auth-enabled App's poller issues a poll-status request
AuthTickIssued ==
    authApp.phase = "polling" /\ Size(authApp'.reqs) > Size(authApp.reqs)

\* no request is issued later than 5 minutes after the poller was started
AuthWithinFiveMinutes ==
    authApp.phase = "polling" =>
        /\ authApp.issuedAt * PollEvery <= PollFor
        /\ (~authApp.live => authApp.now * PollEvery >= PollFor)

\* C25: in the auth-enabled App revision the interval started by
\* startStatusPolling(id) is cleaned up after 5 minutes or when the bot
\* completes: no poll-status request for id is issued after a poll response
\* reported COMPLETED, nor more than 5 minutes after the poller was started.
C25_AuthPollerStops ==
    /\ [][authApp.phase = "polling" /\ authApp.reported = "COMPLETED"
             => ~AuthTickIssued]_vars
    /\ []AuthWithinFiveMinutes

\* C26: a poller interval is registered for a bot id only if the status of the
\* bot's record is PENDING or STARTED: no listed bot whose record is COMPLETED
\* or FAILED (set by a poller tick, a getBots reload or refreshBotStatus) has
\* an entry in pollingIntervals or a live interval.
C26_PollerOnlyForActive ==
    \A b \in BotIds :
        (b \in Ids(bots) /\ (pollingIntervals[b] # 0 \/ LiveFor(b) # {})) =>
            FindStatus(bots, b) \in Active

\* C27: a failed getBots request does not change the registry: when loadBots
\* handles a getBots request that failed, the bot list is the same after it as
\* before.
C27_FailedListKeepsBots ==
    [][\A r \in DOMAIN listReqs : ListRespond(r, FALSE) => bots' = bots]_vars

\* C28: once the bot list has been loaded, the selected bot id is null or the
\* id of a record of the list, also when the selection was restored from local
\* storage for a bot that no longer exists: after loadBots has handled a
\* successful getBots response, selectedBotId is null or listed.
C28_SelectionIsListed ==
    [][\A r \in DOMAIN listReqs :
           ListRespond(r, TRUE) =>
               (selectedBotId' = NoBot \/ selectedBotId' \in Ids(bots'))]_vars

\* the meeting ids with a getMeetingScorecard request in flight
FetchesInFlight == {r.bot : r \in DOMAIN scReqs}

\* C29: fetchInProgress holds exactly the meeting ids with a
\* getMeetingScorecard request in flight; the id of a request is removed when
\* the request settles, with a scorecard or with a failure; and a call of
\* fetchScorecardData for an id without a request in flight issues a request,
\* so a failed fetch does not block a later one.
C29_FetchInProgressIsInFlight ==
    /\ [](fetchInProgress = FetchesInFlight)
    /\ [](\A b \in BotIds :
              b \notin FetchesInFlight =>
                  fetchScorecardData(FetchState, b, TRUE).reqs # scReqs)
    /\ [][\A r \in DOMAIN scReqs : \A res \in ScStatuses \cup {"fail"} :
              ScRespond(r, res) => r.bot \notin fetchInProgress']_vars

\* a fetch of a meeting has just failed: its id has left fetchInProgress and
\* no request is in flight
C29_Witness ==
    /\ lastFailure = "fetch"
    /\ fetchAttempted # {}
    /\ fetchInProgress = {}
    /\ Size(scReqs) = 0

\* the pending retry timers of a meeting id
RetryTimers(tm, b) ==
    SumOver(tm, {t \in DOMAIN tm : t.kind = "retry" /\ t.bot = b})

\* C30: for each meeting id at most one scorecard retry timer is pending at
\* any time, also when a manual fetch or a fetch after a select or a reload is
\* issued for the id while a retry timer of an earlier 'processing' response
\* is pending.
C30_OneRetryTimerPerMeeting ==
    \A b \in BotIds : RetryTimers(timers, b) <= 1

====
